---- MODULE Spec2Model ----
(***************************************************************************)
(* Model of the aws_lb_listener resource adapter (Create / Read / Update / *)
(* Delete, retry on CertificateNotFound, wait until the listener exists)   *)
(* and of the service tag generator (sorted template expansion and the     *)
(* tag conversions it emits).                                              *)
(***************************************************************************)
EXTENDS Integers, Sequences, FiniteSets, TLC

VARIABLES
    op,            \* lifecycle operation the engine is running
    pc,            \* position inside the operation
    d,             \* *schema.ResourceData: id and attributes
    d0,            \* d as it was when the operation was entered
    ret,           \* what the operation returned: "" (running), "ok", "error"
    params,        \* request built by Create / Update before the retry loop
    lastReq,       \* request carried by the latest mutating call
    calls,         \* mutating calls issued by the running operation
    retryErr,      \* err of resource.Retry: "running", "nil" or an error
    lastOut,       \* outcome of the latest mutating call
    elapsed,       \* ticks since the running wait (Retry / WaitForState) began
    notfoundTick,  \* WaitForState's count of consecutive nil results
    describes,     \* DescribeListeners calls issued by the running operation
    lastDescOut,   \* outcome of the latest DescribeListeners call
    lastRefresh,   \* what the refresh function returned for it
    tagsSvc,       \* service whose generated conversions are run
    tags,          \* KeyValueTags handed to <Service>Tags
    svcTags,       \* service tag list: result of <Service>Tags, or an input
    kvTags,        \* KeyValueTags returned by <Service>KeyValueTags
    tagsPc,        \* position of the conversion run
    srcA, srcB,    \* two generator runs: the service name lists as written
    genA, genB,    \* the package variables holding the lists in each run
    outA, outB,    \* the files they generate
    genPc          \* position of the two generator runs

lbVars  == <<op, pc, d, d0, ret, params, lastReq, calls, retryErr, lastOut,
             elapsed, notfoundTick, describes, lastDescOut, lastRefresh>>
tagVars == <<tagsSvc, tags, svcTags, kvTags, tagsPc>>
genVars == <<srcA, srcB, genA, genB, outA, outB, genPc>>
vars    == <<lbVars, tagVars, genVars>>

----------------------------------------------------------------------------
(* Bounds of the model                                                      *)

RetryTicksPerMinute == 2  \* clock of resource.Retry: a tick is its shortest wait
WaitTicksPerMinute == 7   \* clock of WaitForState: a tick is its shortest wait
MaxWait == 2              \* longest wait between two attempts, in ticks

(* Program constants                                                        *)

CreateRetryMinutes == 5     \* resource.Retry(5*time.Minute, ...) of Create
UpdateRetryMinutes == 5     \* resource.Retry(5*time.Minute, ...) of Update
ExistsTimeoutMinutes == 3   \* Timeout of the StateChangeConf of Create
NotFoundChecks == 20        \* StateChangeConf.NotFoundChecks, left at its default

----------------------------------------------------------------------------
(* Errors                                                                   *)

NilErr == [kind |-> "nil", code |-> ""]
AwsErr(code) == [kind |-> "aws", code |-> code]
FmtErr == [kind |-> "fmt", code |-> ""]

ErrCodeCertificateNotFoundException == "CertificateNotFound"
ErrCodeListenerNotFoundException == "ListenerNotFound"
ErrCodes == {ErrCodeCertificateNotFoundException,
             ErrCodeListenerNotFoundException,
             "LoadBalancerNotFound"}

isAWSErr(err, code) == err.kind = "aws" /\ err.code = code

----------------------------------------------------------------------------
(* Values the remote API and the configuration range over                   *)

Action1 == [TargetGroupArn |-> "tg1", Type |-> "forward"]
Action2 == [TargetGroupArn |-> "tg2", Type |-> "forward"]

ListenerHTTP ==
    [ListenerArn |-> "arn1", LoadBalancerArn |-> "lb1", Port |-> 80,
     Protocol |-> "HTTP", SslPolicy |-> "", Certificates |-> <<>>,
     DefaultActions |-> <<Action1>>]
ListenerHTTPS ==
    [ListenerArn |-> "arn1", LoadBalancerArn |-> "lb1", Port |-> 443,
     Protocol |-> "HTTPS", SslPolicy |-> "policy1",
     Certificates |-> <<"cert1">>, DefaultActions |-> <<Action2>>]
Listeners == {ListenerHTTP, ListenerHTTPS}

\* configurations the engine hands to Create / Update (id not part of them)
ConfigHTTP ==
    [id |-> "", arn |-> "", load_balancer_arn |-> "lb1", port |-> 80,
     protocol |-> "HTTP", ssl_policy |-> "", certificate_arn |-> "",
     default_action |-> <<[target_group_arn |-> "tg1", type |-> "forward"]>>]
ConfigHTTPS ==
    [id |-> "", arn |-> "", load_balancer_arn |-> "lb1", port |-> 443,
     protocol |-> "HTTPS", ssl_policy |-> "", certificate_arn |-> "cert2",
     default_action |-> <<[target_group_arn |-> "tg2", type |-> "forward"]>>]
Configs == {ConfigHTTP, ConfigHTTPS}

\* a response of CreateListener / ModifyListener / DescribeListeners
Response(err, ls) == [err |-> err, Listeners |-> ls]
ListenerLists ==
    {<<>>} \cup {<<l>> : l \in Listeners}
           \cup {<<ListenerHTTP, ListenerHTTPS>>}
Responses ==
    {Response(NilErr, ls) : ls \in ListenerLists}
        \cup {Response(AwsErr(c), <<>>) : c \in ErrCodes}

----------------------------------------------------------------------------
(* Request construction                                                     *)

\* d.GetOk: the value is set when it is not the zero value
GetOk(v) == v # ""

CertificatesParam(dd) ==
    IF GetOk(dd.certificate_arn) THEN <<dd.certificate_arn>> ELSE <<>>
DefaultActionsParam(dd) ==
    IF Len(dd.default_action) = 1
    THEN [i \in 1..Len(dd.default_action) |->
            [TargetGroupArn |-> dd.default_action[i].target_group_arn,
             Type |-> dd.default_action[i].type]]
    ELSE <<>>

CreateListenerInput(dd) ==
    [api |-> "CreateListener", Arn |-> dd.load_balancer_arn, Port |-> dd.port,
     Protocol |-> dd.protocol,
     SslPolicy |-> IF GetOk(dd.ssl_policy) THEN <<dd.ssl_policy>> ELSE <<>>,
     Certificates |-> CertificatesParam(dd),
     DefaultActions |-> DefaultActionsParam(dd)]

ModifyListenerInput(dd) ==
    [api |-> "ModifyListener", Arn |-> dd.id, Port |-> dd.port,
     Protocol |-> dd.protocol,
     SslPolicy |-> IF GetOk(dd.ssl_policy) THEN <<dd.ssl_policy>> ELSE <<>>,
     Certificates |-> CertificatesParam(dd),
     DefaultActions |-> DefaultActionsParam(dd)]

----------------------------------------------------------------------------
(* resourceAwsLbListenerReadData                                            *)

resourceAwsLbListenerReadData(dd, listener) ==
    [dd EXCEPT
        !.arn = listener.ListenerArn,
        !.load_balancer_arn = listener.LoadBalancerArn,
        !.port = listener.Port,
        !.protocol = listener.Protocol,
        !.ssl_policy = listener.SslPolicy,
        !.certificate_arn =
            IF Len(listener.Certificates) = 1
            THEN listener.Certificates[1] ELSE @,
        !.default_action =
            [i \in 1..Len(listener.DefaultActions) |->
                [target_group_arn |-> listener.DefaultActions[i].TargetGroupArn,
                 type |-> listener.DefaultActions[i].Type]]]

----------------------------------------------------------------------------
(* resourceAwsLbListenerRefreshFunc: (object, state, error) for one         *)
(* DescribeListeners outcome; the object is <<>> for nil                    *)

Refreshed(obj, state, err) == [obj |-> obj, state |-> state, err |-> err]

\* variant: every describe error is taken for "not found"
RefreshFunc_SwallowsErrors(out) ==
    IF out.err.kind # "nil" THEN Refreshed(<<>>, "", NilErr)
    ELSE IF Len(out.Listeners) # 1 THEN Refreshed(<<>>, "", FmtErr)
    ELSE Refreshed(<<out.Listeners[1]>>, "exists", NilErr)

\* variant: the listener count is only checked not to be zero
RefreshFunc_AtLeastOne(out) ==
    IF out.err.kind # "nil"
    THEN IF isAWSErr(out.err, ErrCodeListenerNotFoundException)
         THEN Refreshed(<<>>, "", NilErr) ELSE Refreshed(<<>>, "", FmtErr)
    ELSE IF Len(out.Listeners) < 1 THEN Refreshed(<<>>, "", FmtErr)
    ELSE Refreshed(<<out.Listeners[1]>>, "exists", NilErr)

resourceAwsLbListenerRefreshFunc(out) ==
    LET notFound == out.err.kind # "nil"
                    /\ isAWSErr(out.err, ErrCodeListenerNotFoundException)
    IN  IF out.err.kind # "nil" /\ ~notFound
        THEN Refreshed(<<>>, "", FmtErr)
        ELSE IF notFound
        THEN Refreshed(<<>>, "", NilErr)
        ELSE IF Len(out.Listeners) # 1
        THEN Refreshed(<<>>, "", FmtErr)
        ELSE Refreshed(<<out.Listeners[1]>>, "exists", NilErr)

----------------------------------------------------------------------------
(* The closures handed to resource.Retry: "success", "retryable" or         *)
(* "nonretryable" for one outcome of the mutating call                      *)

\* variant: CertificateNotFound is not retried
RetryFunc_NeverRetries(err) ==
    IF err.kind # "nil" THEN "nonretryable" ELSE "success"

\* variant: every error is retried
RetryFunc_RetriesAll(err) ==
    IF err.kind # "nil" THEN "retryable" ELSE "success"

CreateRetryFunc(err) ==
    IF err.kind # "nil"
    THEN IF isAWSErr(err, ErrCodeCertificateNotFoundException)
         THEN "retryable" ELSE "nonretryable"
    ELSE "success"

UpdateRetryFunc(err) ==
    IF err.kind # "nil"
    THEN IF isAWSErr(err, ErrCodeCertificateNotFoundException)
         THEN "retryable" ELSE "nonretryable"
    ELSE "success"

\* timeouts in ticks
CreateRetryTimeout == CreateRetryMinutes * RetryTicksPerMinute
UpdateRetryTimeout == UpdateRetryMinutes * RetryTicksPerMinute
ExistsTimeout == ExistsTimeoutMinutes * WaitTicksPerMinute

----------------------------------------------------------------------------
(* resource.StateChangeConf.WaitForState, one refresh: what the wait does   *)
(* with the refresh result r after tick consecutive nil results             *)

Running == [kind |-> "running", code |-> ""]

WaitForStateStep(r, pending, target, tick) ==
    IF r.err.kind # "nil" THEN "error"
    ELSE IF r.obj = <<>>
    THEN IF tick + 1 > NotFoundChecks THEN "notfound" ELSE "wait"
    ELSE IF r.state \in target THEN "done"
    ELSE IF r.state \in pending THEN "wait"
    ELSE "unexpected"

\* Pending / Target of the wait of Create
ExistsPending == {""}
ExistsTarget == {"exists"}

----------------------------------------------------------------------------
(* resourceAwsLbListenerRead on one DescribeListeners outcome:              *)
(* the resource data it leaves and the error it returns                     *)

\* variant: any describe error removes the resource from state
Read_RemovesOnAnyError(dd, out) ==
    LET r == resourceAwsLbListenerRefreshFunc(out)
    IN  IF r.err.kind # "nil" \/ r.obj = <<>>
        THEN [d |-> [dd EXCEPT !.id = ""], ret |-> "ok"]
        ELSE [d |-> resourceAwsLbListenerReadData(dd, r.obj[1]), ret |-> "ok"]

resourceAwsLbListenerRead(dd, out) ==
    LET r == resourceAwsLbListenerRefreshFunc(out)
    IN  IF r.err.kind # "nil"
        THEN IF isAWSErr(r.err, ErrCodeListenerNotFoundException)
             THEN [d |-> [dd EXCEPT !.id = ""], ret |-> "ok"]
             ELSE [d |-> dd, ret |-> "error"]
        ELSE IF r.obj = <<>>
        THEN [d |-> [dd EXCEPT !.id = ""], ret |-> "ok"]
        ELSE [d |-> resourceAwsLbListenerReadData(dd, r.obj[1]), ret |-> "ok"]

----------------------------------------------------------------------------
(* Initial state: a configuration not yet created, or an imported id        *)

Imported ==
    [id |-> "arn1", arn |-> "", load_balancer_arn |-> "", port |-> 0,
     protocol |-> "", ssl_policy |-> "", certificate_arn |-> "",
     default_action |-> <<>>]

NoResponse == Response(Running, <<>>)
NoRefresh == Refreshed(<<>>, "", Running)

LbInit ==
    /\ op = "none" /\ pc = "idle" /\ ret = ""
    /\ d \in Configs \cup {Imported}
    /\ d0 = d
    /\ params = <<>> /\ lastReq = <<>> /\ calls = 0
    /\ retryErr = Running /\ lastOut = NoResponse
    /\ elapsed = 0 /\ notfoundTick = 0 /\ describes = 0
    /\ lastDescOut = NoResponse /\ lastRefresh = NoRefresh

Returned == pc \in {"idle", "done"}

\* the engine holds the resource in its state: it has an id, and the engine
\* drops it once Delete has returned without error
InState == d.id # "" /\ ~(op = "Delete" /\ ret = "ok")

\* what entering an operation resets
EnterOp(name, dd) == op' = name /\ d0' = dd
NoCalls ==
    /\ lastReq' = <<>> /\ calls' = 0 /\ retryErr' = Running
    /\ lastOut' = NoResponse /\ elapsed' = 0
NoDescribes ==
    /\ notfoundTick' = 0 /\ describes' = 0
    /\ lastDescOut' = NoResponse /\ lastRefresh' = NoRefresh

----------------------------------------------------------------------------
(* resourceAwsLbListenerCreate                                              *)

\* the engine calls Create for a resource without id; Create builds params
BeginCreate ==
    /\ Returned
    /\ ~InState
    /\ \E c \in Configs :
        /\ d' = c
        /\ EnterOp("Create", c)
        /\ params' = <<CreateListenerInput(c)>>
    /\ pc' = "create_retry" /\ ret' = ""
    /\ NoCalls /\ NoDescribes
    /\ UNCHANGED <<tagVars, genVars>>

\* one pass of the retry loop: CreateListener, then the closure's verdict
CreateAttempt ==
    /\ pc = "create_retry"
    /\ \E out \in Responses, dt \in 1..MaxWait :
        LET class == CreateRetryFunc(out.err)
            late == elapsed + dt >= CreateRetryTimeout
        IN  /\ calls' = calls + 1
            /\ lastReq' = params
            /\ lastOut' = out
            /\ IF class = "success"
               THEN /\ retryErr' = NilErr
                    /\ IF Len(out.Listeners) = 0
                       THEN /\ ret' = "error" /\ pc' = "done"
                            /\ UNCHANGED <<d, elapsed>>
                       ELSE /\ d' = [d EXCEPT !.id = out.Listeners[1].ListenerArn]
                            /\ pc' = "create_wait" /\ elapsed' = 0
                            /\ UNCHANGED ret
               ELSE IF class = "nonretryable"
               THEN /\ retryErr' = out.err
                    /\ ret' = "error" /\ pc' = "done"
                    /\ UNCHANGED <<d, elapsed>>
               ELSE /\ elapsed' = elapsed + dt
                    /\ retryErr' = IF late THEN out.err ELSE Running
                    /\ ret' = IF late THEN "error" ELSE ret
                    /\ pc' = IF late THEN "done" ELSE pc
                    /\ UNCHANGED d
    /\ UNCHANGED <<op, d0, params, notfoundTick, describes, lastDescOut,
                   lastRefresh, tagVars, genVars>>

\* one refresh of the wait for the listener to exist
CreateWait ==
    /\ pc = "create_wait"
    /\ \E out \in Responses, dt \in 1..MaxWait :
        LET r == resourceAwsLbListenerRefreshFunc(out)
            step == WaitForStateStep(r, ExistsPending, ExistsTarget, notfoundTick)
            late == elapsed + dt >= ExistsTimeout
        IN  /\ describes' = describes + 1
            /\ lastDescOut' = out
            /\ lastRefresh' = r
            /\ notfoundTick' = IF r.err.kind = "nil" /\ r.obj = <<>>
                               THEN notfoundTick + 1 ELSE 0
            /\ IF step = "done"
               THEN /\ d' = resourceAwsLbListenerReadData(d, r.obj[1])
                    /\ ret' = "ok" /\ pc' = "done"
                    /\ UNCHANGED elapsed
               ELSE IF step = "wait"
               THEN /\ elapsed' = elapsed + dt
                    /\ ret' = IF late THEN "error" ELSE ret
                    /\ pc' = IF late THEN "done" ELSE pc
                    /\ UNCHANGED d
               ELSE /\ ret' = "error" /\ pc' = "done"
                    /\ UNCHANGED <<d, elapsed>>
    /\ UNCHANGED <<op, d0, params, lastReq, calls, retryErr, lastOut,
                   tagVars, genVars>>

----------------------------------------------------------------------------
(* resourceAwsLbListenerRead, as the engine calls it                        *)

Read ==
    /\ Returned
    /\ InState
    /\ \E out \in Responses :
        LET res == resourceAwsLbListenerRead(d, out)
        IN  /\ EnterOp("Read", d)
            /\ d' = res.d
            /\ ret' = res.ret
            /\ describes' = 1
            /\ lastDescOut' = out
            /\ lastRefresh' = resourceAwsLbListenerRefreshFunc(out)
    /\ pc' = "done"
    /\ params' = <<>>
    /\ NoCalls /\ notfoundTick' = 0
    /\ UNCHANGED <<tagVars, genVars>>

----------------------------------------------------------------------------
(* resourceAwsLbListenerUpdate                                              *)

\* the engine calls Update with the new configuration merged into the state
BeginUpdate ==
    /\ Returned
    /\ InState
    /\ \E c \in Configs :
        LET dd == [c EXCEPT !.id = d.id, !.arn = d.arn]
        IN  /\ d' = dd
            /\ EnterOp("Update", dd)
            /\ params' = <<ModifyListenerInput(dd)>>
    /\ pc' = "update_retry" /\ ret' = ""
    /\ NoCalls /\ NoDescribes
    /\ UNCHANGED <<tagVars, genVars>>

\* one pass of the retry loop: ModifyListener, then the closure's verdict
UpdateAttempt ==
    /\ pc = "update_retry"
    /\ \E out \in Responses, dt \in 1..MaxWait :
        LET class == UpdateRetryFunc(out.err)
            late == elapsed + dt >= UpdateRetryTimeout
        IN  /\ calls' = calls + 1
            /\ lastReq' = params
            /\ lastOut' = out
            /\ IF class = "success"
               THEN /\ retryErr' = NilErr
                    /\ pc' = "update_read"
                    /\ UNCHANGED <<ret, elapsed>>
               ELSE IF class = "nonretryable"
               THEN /\ retryErr' = out.err
                    /\ ret' = "error" /\ pc' = "done"
                    /\ UNCHANGED elapsed
               ELSE /\ elapsed' = elapsed + dt
                    /\ retryErr' = IF late THEN out.err ELSE Running
                    /\ ret' = IF late THEN "error" ELSE ret
                    /\ pc' = IF late THEN "done" ELSE pc
    /\ UNCHANGED <<op, d, d0, params, notfoundTick, describes, lastDescOut,
                   lastRefresh, tagVars, genVars>>

\* return resourceAwsLbListenerRead(d, meta)
UpdateRead ==
    /\ pc = "update_read"
    /\ \E out \in Responses :
        LET res == resourceAwsLbListenerRead(d, out)
        IN  /\ d' = res.d
            /\ ret' = res.ret
            /\ describes' = describes + 1
            /\ lastDescOut' = out
            /\ lastRefresh' = resourceAwsLbListenerRefreshFunc(out)
    /\ pc' = "done"
    /\ UNCHANGED <<op, d0, params, lastReq, calls, retryErr, lastOut, elapsed,
                   notfoundTick, tagVars, genVars>>

----------------------------------------------------------------------------
(* resourceAwsLbListenerDelete                                              *)

Delete ==
    /\ Returned
    /\ InState
    /\ \E out \in Responses :
        /\ EnterOp("Delete", d)
        /\ calls' = 1
        /\ lastOut' = out
        /\ ret' = IF out.err.kind # "nil" THEN "error" ELSE "ok"
    /\ pc' = "done"
    /\ params' = <<>> /\ lastReq' = <<>>
    /\ retryErr' = Running /\ elapsed' = 0
    /\ NoDescribes
    /\ UNCHANGED <<d, tagVars, genVars>>

LbNext ==
    \/ BeginCreate \/ CreateAttempt \/ CreateWait
    \/ Read
    \/ BeginUpdate \/ UpdateAttempt \/ UpdateRead
    \/ Delete

----------------------------------------------------------------------------
(* Generated tag conversions for the slice-shaped services.                 *)
(* A service name is the sequence of its bytes.                             *)

\* service names of sliceServiceNames and mapServiceNames the runs draw from
appmesh == <<97, 112, 112, 109, 101, 115, 104>>
datasync == <<100, 97, 116, 97, 115, 121, 110, 99>>
ec2 == <<101, 99, 50>>
elb == <<101, 108, 98>>
elbv2 == <<101, 108, 98, 118, 50>>
fms == <<102, 109, 115>>
kms == <<107, 109, 115>>
swf == <<115, 119, 102>>
guardduty == <<103, 117, 97, 114, 100, 100, 117, 116, 121>>
greengrass == <<103, 114, 101, 101, 110, 103, 114, 97, 115, 115>>

MaxTags == 3   \* longest service tag list handed to <Service>KeyValueTags

TagKeyNames == {"k1", "k2"}
TagValues == {"v1", "v2"}
TagServices == {ec2, elb, kms}

\* aws.String / aws.StringValue: a *string is <<>> (nil) or <<s>>
String(v) == <<v>>
StringValue(ptr) == IF ptr = <<>> THEN "" ELSE ptr[1]

\* ServiceTagTypeKeyField / ServiceTagTypeValueField
ServiceTagTypeKeyField(serviceName) ==
    IF serviceName = kms THEN "TagKey" ELSE "Key"
ServiceTagTypeValueField(serviceName) ==
    IF serviceName = kms THEN "TagValue" ELSE "Value"

\* the struct literal &SERVICE.Tag{KeyField: key, ValueField: value}
TagStruct(serviceName, key, value) ==
    [f \in {ServiceTagTypeKeyField(serviceName),
            ServiceTagTypeValueField(serviceName)} |->
        IF f = ServiceTagTypeKeyField(serviceName) THEN key ELSE value]

\* KeyValueTags is a map from key to *string: New copies a map into one,
\* Map returns it with the values dereferenced
New(m) == [k \in DOMAIN m |-> m[k]]
Map(t) == [k \in DOMAIN t |-> StringValue(t[k])]

\* <Service>Tags with the map ranged over in the order given
ServiceTags(serviceName, t, order) ==
    [i \in 1..Len(order) |->
        TagStruct(serviceName, String(order[i]), String(Map(t)[order[i]]))]

\* the map m built by the loop of <Service>KeyValueTags over a tag list
RECURSIVE TagsLoop(_, _, _)
TagsLoop(serviceName, list, m) ==
    IF list = <<>> THEN m
    ELSE LET tag == Head(list)
             key == StringValue(tag[ServiceTagTypeKeyField(serviceName)])
             val == tag[ServiceTagTypeValueField(serviceName)]
         IN  TagsLoop(serviceName, Tail(list),
                      [k \in DOMAIN m \cup {key} |->
                          IF k = key THEN val ELSE m[k]])

\* variant: the first occurrence of a key wins
RECURSIVE TagsLoopKeepFirst(_, _, _)
TagsLoopKeepFirst(serviceName, list, m) ==
    IF list = <<>> THEN m
    ELSE LET tag == Head(list)
             key == StringValue(tag[ServiceTagTypeKeyField(serviceName)])
             val == tag[ServiceTagTypeValueField(serviceName)]
         IN  TagsLoopKeepFirst(serviceName, Tail(list),
                      [k \in DOMAIN m \cup {key} |->
                          IF k \in DOMAIN m THEN m[k] ELSE val])
KeyValueTags_KeepFirst(serviceName, list) ==
    New(TagsLoopKeepFirst(serviceName, list, <<>>))

\* <Service>KeyValueTags
ServiceKeyValueTags(serviceName, list) ==
    New(TagsLoop(serviceName, list, <<>>))

\* inputs: tag containers and service tag lists
Containers ==
    UNION {[ks -> {String(v) : v \in TagValues}] : ks \in SUBSET TagKeyNames}
TagStructs(serviceName) ==
    {TagStruct(serviceName, String(k), String(v)) :
        k \in TagKeyNames, v \in TagValues}
TagLists(serviceName) ==
    UNION {[1..n -> TagStructs(serviceName)] : n \in 0..MaxTags}
Orders(ks) ==
    {o \in [1..Cardinality(ks) -> ks] :
        \A i, j \in 1..Cardinality(ks) : i # j => o[i] # o[j]}

TagInit ==
    /\ tagsSvc \in TagServices
    /\ kvTags = <<>>
    /\ \/ /\ tagsPc = "tags" /\ tags \in Containers /\ svcTags = <<>>
       \/ /\ tagsPc = "list" /\ tags = <<>> /\ svcTags \in TagLists(tagsSvc)

TagIdle ==
    tagsSvc = <<>> /\ tags = <<>> /\ svcTags = <<>> /\ kvTags = <<>>
        /\ tagsPc = "off"

\* call tags.<Service>Tags(); Go ranges over the map in any order
CallServiceTags ==
    /\ tagsPc = "tags"
    /\ \E order \in Orders(DOMAIN tags) :
        svcTags' = ServiceTags(tagsSvc, tags, order)
    /\ tagsPc' = "listed"
    /\ UNCHANGED <<tagsSvc, tags, kvTags, lbVars, genVars>>

\* call <Service>KeyValueTags(svcTags)
CallServiceKeyValueTags ==
    /\ tagsPc \in {"listed", "list"}
    /\ kvTags' = ServiceKeyValueTags(tagsSvc, svcTags)
    /\ tagsPc' = IF tagsPc = "listed" THEN "back" ELSE "converted"
    /\ UNCHANGED <<tagsSvc, tags, svcTags, lbVars, genVars>>

TagNext == CallServiceTags \/ CallServiceKeyValueTags

----------------------------------------------------------------------------
(* The service tag generator                                                *)

SliceNames == {ec2, elb, elbv2, kms}
MapNames == {guardduty, greengrass}

\* Go's < on strings: byte-wise, a proper prefix first
RECURSIVE StrLess(_, _)
StrLess(a, b) ==
    IF b = <<>> THEN FALSE
    ELSE IF a = <<>> THEN TRUE
    ELSE IF Head(a) # Head(b) THEN Head(a) < Head(b)
    ELSE StrLess(Tail(a), Tail(b))

\* sort.Strings, as an insertion sort
RECURSIVE Insert(_, _)
Insert(x, sorted) ==
    IF sorted = <<>> THEN <<x>>
    ELSE IF StrLess(x, Head(sorted)) THEN <<x>> \o sorted
    ELSE <<Head(sorted)>> \o Insert(x, Tail(sorted))
RECURSIVE SortStrings(_)
SortStrings(names) ==
    IF names = <<>> THEN <<>>
    ELSE Insert(Head(names), SortStrings(Tail(names)))

\* variant: the lists are expanded as written
mainSort_Unsorted(names) == names

\* the two sort.Strings calls of main
mainSort(names) == SortStrings(names)

\* strings.Title on a one-word lower-case name
Title(name) ==
    IF name # <<>> /\ name[1] >= 97 /\ name[1] <= 122
    THEN <<name[1] - 32>> \o Tail(name)
    ELSE name

ServiceTagKeyType(serviceName) ==
    IF serviceName = elb THEN "TagKeyOnly" ELSE ""
ServiceTagType(serviceName) ==
    IF serviceName = appmesh THEN "TagRef"
    ELSE IF serviceName = datasync THEN "TagListEntry"
    ELSE IF serviceName = fms THEN "ResourceTag"
    ELSE IF serviceName = swf THEN "ResourceTag"
    ELSE "Tag"
\* keyvaluetags.ServiceTagPackage
ServiceTagPackage(serviceName) == serviceName

\* one line group the template emits
Emit(kind, n, keyType) ==
    [kind |-> kind, svc |-> n, title |-> Title(n),
     pkg |-> ServiceTagPackage(n),
     type |-> IF keyType THEN ServiceTagKeyType(n) ELSE ServiceTagType(n),
     keyField |-> ServiceTagTypeKeyField(n),
     valueField |-> ServiceTagTypeValueField(n)]

\* {{ range .SliceServiceNames }} of the import block
RECURSIVE ImportBlock(_)
ImportBlock(names) ==
    IF names = <<>> THEN <<>>
    ELSE (IF Head(names) = ServiceTagPackage(Head(names))
          THEN <<Emit("import", Head(names), FALSE)>> ELSE <<>>)
         \o ImportBlock(Tail(names))

\* {{ range .MapServiceNames }}
RECURSIVE MapSection(_)
MapSection(names) ==
    IF names = <<>> THEN <<>>
    ELSE <<Emit("MapTags", Head(names), FALSE),
           Emit("MapKeyValueTags", Head(names), FALSE)>>
         \o MapSection(Tail(names))

\* {{ range .SliceServiceNames }} of the function section
RECURSIVE SliceSection(_)
SliceSection(names) ==
    IF names = <<>> THEN <<>>
    ELSE (IF ServiceTagKeyType(Head(names)) # ""
          THEN <<Emit("SliceTagKeys", Head(names), TRUE)>> ELSE <<>>)
         \o <<Emit("SliceTags", Head(names), FALSE),
              Emit("SliceKeyValueTags", Head(names), FALSE)>>
         \o SliceSection(Tail(names))

\* tmpl.Execute on TemplateData
templateBody(data) ==
    ImportBlock(data.SliceServiceNames)
        \o MapSection(data.MapServiceNames)
        \o SliceSection(data.SliceServiceNames)

TemplateData(mapNames, sliceNames) ==
    [MapServiceNames |-> mapNames, SliceServiceNames |-> sliceNames]

\* the lists as written: sequences without repetition
Written(names) ==
    {l \in UNION {[1..n -> names] : n \in 0..Cardinality(names)} :
        \A i, j \in 1..Len(l) : i # j => l[i] # l[j]}
Range(l) == {l[i] : i \in 1..Len(l)}

GenInit ==
    /\ genPc = {}
    /\ outA = <<>> /\ outB = <<>>
    /\ \E ma \in Written(MapNames), sa \in Written(SliceNames) :
        /\ srcA = TemplateData(ma, sa) /\ genA = srcA
        /\ \E mb \in Written(MapNames), sb \in Written(SliceNames) :
            /\ Range(mb) = Range(ma) /\ Range(sb) = Range(sa)
            /\ srcB = TemplateData(mb, sb) /\ genB = srcB

GenIdle ==
    /\ genPc = {"off"} /\ outA = <<>> /\ outB = <<>>
    /\ genA = TemplateData(<<>>, <<>>) /\ genB = TemplateData(<<>>, <<>>)
    /\ srcA = genA /\ srcB = genB

\* main on the lists of run A: sort both in place, then expand the template
MainA ==
    /\ "A" \notin genPc /\ "off" \notin genPc
    /\ genA' = TemplateData(mainSort(genA.MapServiceNames),
                            mainSort(genA.SliceServiceNames))
    /\ outA' = templateBody(genA')
    /\ genPc' = genPc \cup {"A"}
    /\ UNCHANGED <<srcA, srcB, genB, outB, lbVars, tagVars>>

\* main on the lists of run B
MainB ==
    /\ "B" \notin genPc /\ "off" \notin genPc
    /\ genB' = TemplateData(mainSort(genB.MapServiceNames),
                            mainSort(genB.SliceServiceNames))
    /\ outB' = templateBody(genB')
    /\ genPc' = genPc \cup {"B"}
    /\ UNCHANGED <<srcA, srcB, genA, outA, lbVars, tagVars>>

GenNext == MainA \/ MainB

----------------------------------------------------------------------------
(* Specifications                                                           *)

LbIdle == LbInit /\ d = ConfigHTTP

Init == LbInit /\ TagIdle /\ GenIdle
Next == LbNext

\* the listener resource driven by the engine
Spec == Init /\ [][Next]_vars

\* the same, with every started wait running to its end
FairSpec ==
    Spec /\ WF_vars(CreateAttempt) /\ WF_vars(CreateWait)
         /\ WF_vars(UpdateAttempt) /\ WF_vars(UpdateRead)

\* the generated conversions applied to bounded inputs
TagSpecInit == LbIdle /\ TagInit /\ GenIdle
TagSpec == TagSpecInit /\ [][TagNext]_vars

\* two runs of the generator on permutations of the same lists
GenSpecInit == LbIdle /\ TagIdle /\ GenInit
GenSpec == GenSpecInit /\ [][GenNext]_vars

----------------------------------------------------------------------------
(* Claims about the listener resource                                       *)

InRetry == pc \in {"create_retry", "update_retry"}
RetryTimeoutOf(o) ==
    IF o = "Create" THEN CreateRetryTimeout ELSE UpdateRetryTimeout
CertificateNotFound(out) ==
    out.err.kind = "aws" /\ out.err.code = "CertificateNotFound"
ListenerNotFound(out) ==
    out.err.kind = "aws" /\ out.err.code = "ListenerNotFound"
OtherFailure(out) ==
    out.err.kind = "aws" /\ out.err.code # "CertificateNotFound"
Mutating == op \in {"Create", "Update"}

\* C1, state part: inside the loop the window has not elapsed and every call
\* so far failed with CertificateNotFound and carried the request built before
\* the loop; the loop's error is nil exactly when the last call succeeded, and
\* a loop left on CertificateNotFound was left after the window, with an error
C1_Inv ==
    Mutating =>
        /\ InRetry => /\ elapsed < RetryTimeoutOf(op)
                      /\ ENABLED (CreateAttempt \/ UpdateAttempt)
                      /\ retryErr.kind = "running"
                      /\ calls > 0 => CertificateNotFound(lastOut)
        /\ calls > 0 => /\ lastReq = params
                        /\ params = <<IF op = "Create"
                                      THEN CreateListenerInput(d0)
                                      ELSE ModifyListenerInput(d0)>>
        /\ (calls > 0 /\ lastOut.err.kind = "nil") <=> retryErr = NilErr
        /\ (calls > 0 /\ ~InRetry /\ CertificateNotFound(lastOut)) =>
                /\ elapsed >= RetryTimeoutOf(op)
                /\ retryErr = lastOut.err
                /\ ret = "error" /\ pc = "done"

\* C1, step part: a call failing with CertificateNotFound before the window
\* has elapsed leaves the operation in the loop, unreturned, with the same
\* request; a call that succeeds ends the loop with a nil error
C1_Step ==
    (InRetry /\ calls' = calls + 1) =>
        /\ lastReq' = params /\ params' = params
        /\ (CertificateNotFound(lastOut') /\ elapsed' < RetryTimeoutOf(op)) =>
                (pc' = pc /\ ret' = "")
        /\ (CertificateNotFound(lastOut') /\ elapsed' >= RetryTimeoutOf(op)) =>
                (pc' = "done" /\ ret' = "error")
        /\ lastOut'.err.kind = "nil" => (~InRetry' /\ retryErr' = NilErr)

\* C1: in listener Create and Update a mutating call that fails with
\* CertificateNotFound is attempted again with the same request until a call
\* succeeds (the loop ends without error) or the 5-minute window has elapsed
\* (the operation returns an error); the loop always ends
C1_RetryOnCertificateNotFound ==
    /\ []C1_Inv
    /\ [][C1_Step]_vars
    /\ (InRetry ~> ~InRetry)

\* C1 witness: Create was retried and then succeeded inside the window
C1_Witness ==
    /\ op = "Create" /\ calls >= 2 /\ retryErr = NilErr
    /\ pc = "create_wait"

\* the latest mutating call failed with an error other than CertificateNotFound
NonRetryableFailed == Mutating /\ calls > 0 /\ OtherFailure(lastOut)

\* C2: in listener Create and Update a mutating call that fails with an error
\* other than CertificateNotFound is the last call: the operation has returned
\* an error, no call follows it, and in Create no describe was issued and the
\* resource id is unset
C2_NoRetryOnOtherErrors ==
    /\ [](NonRetryableFailed =>
            /\ pc = "done" /\ ret = "error"
            /\ retryErr = lastOut.err
            /\ describes = 0
            /\ op = "Create" => d.id = "")
    /\ [][(InRetry /\ calls' = calls + 1 /\ OtherFailure(lastOut')) =>
            (pc' = "done" /\ ret' = "error" /\ describes' = 0)]_vars
    /\ [][NonRetryableFailed =>
            (calls' # calls + 1 /\ (op' = op => describes' = 0))]_vars

\* C2 witness: Create failed on its first call with LoadBalancerNotFound
C2_Witness ==
    /\ op = "Create" /\ calls = 1 /\ pc = "done"
    /\ lastOut.err = AwsErr("LoadBalancerNotFound")

\* C3, state part: Create has returned success only if CreateListener
\* succeeded and the latest of at least one describe saw the listener; a
\* describe is only issued after CreateListener succeeded and before the
\* return; a wait that ran out of time, or ended on a describe error,
\* returned an error
C3_Inv ==
    op = "Create" =>
        /\ (pc = "done" /\ ret = "ok") =>
                /\ retryErr = NilErr /\ lastOut.err.kind = "nil"
                /\ describes >= 1
                /\ lastDescOut.err.kind = "nil"
                /\ Len(lastDescOut.Listeners) = 1
                /\ lastRefresh.state = "exists"
                /\ d.id = lastOut.Listeners[1].ListenerArn
        /\ describes > 0 => (retryErr = NilErr /\ d.id # "")
        /\ pc = "create_wait" =>
                /\ ret = "" /\ elapsed < ExistsTimeout
                /\ describes > 0 => ListenerNotFound(lastDescOut)
        /\ (describes > 0 /\ elapsed >= ExistsTimeout) =>
                (pc = "done" /\ ret = "error")
        /\ (describes > 0 /\ lastDescOut.err.kind = "aws"
                /\ ~ListenerNotFound(lastDescOut)) =>
                (pc = "done" /\ ret = "error")

\* C3, step part: a describe that reports the listener as not found never
\* makes Create succeed, and while the wait has time and not-found checks
\* left Create polls again; once Create has returned it issues no describe
C3_Step ==
    /\ (pc = "create_wait" /\ ListenerNotFound(lastDescOut')
            /\ describes' = describes + 1) =>
            /\ ret' # "ok"
            /\ (elapsed' < ExistsTimeout /\ notfoundTick' <= NotFoundChecks)
                    => (pc' = "create_wait" /\ ret' = "")
    /\ (op = "Create" /\ pc = "done" /\ op' = op /\ pc' = pc) =>
            describes' = describes

OneListener(out) == out.err.kind = "nil" /\ Len(out.Listeners) = 1

\* what Read does to the id and what it returns
C5_Removal ==
    (op = "Read" /\ pc = "done") =>
        /\ ListenerNotFound(lastDescOut) => (d.id = "" /\ ret = "ok")
        /\ d.id = "" <=> ListenerNotFound(lastDescOut)
        /\ (~ListenerNotFound(lastDescOut) /\ ~OneListener(lastDescOut)) =>
                (ret = "error" /\ d = d0)
        /\ OneListener(lastDescOut) => (ret = "ok" /\ d.id = d0.id)

\* the attributes the listener always overwrites
OverwrittenFrom(l) ==
    /\ d.arn = l.ListenerArn
    /\ d.load_balancer_arn = l.LoadBalancerArn
    /\ d.port = l.Port
    /\ d.protocol = l.Protocol
    /\ d.ssl_policy = l.SslPolicy
    /\ Len(d.default_action) = Len(l.DefaultActions)
    /\ \A i \in 1..Len(l.DefaultActions) :
        /\ d.default_action[i].target_group_arn = l.DefaultActions[i].TargetGroupArn
        /\ d.default_action[i].type = l.DefaultActions[i].Type

\* C5 as stated: Read removes the resource from state exactly when the
\* listener is reported absent, fails without touching the resource data on
\* any other error or listener count, and with exactly one listener keeps the
\* id and overwrites every attribute, certificate_arn included, from it
C5_ReadAsStated ==
    /\ C5_Removal
    /\ (op = "Read" /\ pc = "done" /\ OneListener(lastDescOut)) =>
        LET l == lastDescOut.Listeners[1]
        IN  /\ OverwrittenFrom(l)
            /\ d.certificate_arn =
                IF Len(l.Certificates) >= 1 THEN l.Certificates[1] ELSE ""

\* C5 amended: as stated, except that certificate_arn is overwritten only
\* when the listener carries exactly one certificate and otherwise keeps the
\* value it had before Read
C5_ReadAmended ==
    /\ C5_Removal
    /\ (op = "Read" /\ pc = "done" /\ OneListener(lastDescOut)) =>
        LET l == lastDescOut.Listeners[1]
        IN  /\ OverwrittenFrom(l)
            /\ d.certificate_arn =
                IF Len(l.Certificates) = 1 THEN l.Certificates[1]
                ELSE d0.certificate_arn

\* C5 witness: Read of a resource holding a certificate got a listener
\* without one
C5_Witness ==
    /\ op = "Read" /\ pc = "done" /\ OneListener(lastDescOut)
    /\ Len(lastDescOut.Listeners[1].Certificates) = 0
    /\ d0.certificate_arn # ""

\* C6: the refresh function maps ListenerNotFound to (nil, "", nil), a
\* response with exactly one listener to (that listener, "exists", nil) and
\* every other outcome to an error; "exists" comes only with a listener
C6_RefreshClassifies ==
    describes > 0 =>
        /\ ListenerNotFound(lastDescOut) =>
                lastRefresh = Refreshed(<<>>, "", NilErr)
        /\ OneListener(lastDescOut) =>
                lastRefresh =
                    Refreshed(<<lastDescOut.Listeners[1]>>, "exists", NilErr)
        /\ (~ListenerNotFound(lastDescOut) /\ ~OneListener(lastDescOut)) =>
                (lastRefresh.err.kind \notin {"nil", "running"}
                    /\ lastRefresh.obj = <<>>)
        /\ lastRefresh.state = "exists" => lastRefresh.obj # <<>>

\* C6 witness: a describe answered with two listeners and was refused
C6_Witness ==
    /\ describes > 0 /\ lastDescOut.err.kind = "nil"
    /\ Len(lastDescOut.Listeners) = 2 /\ lastRefresh.err.kind = "fmt"

----------------------------------------------------------------------------
(* Claims about the generated tag conversions and the generator             *)

\* the field names the service's tag type is declared with
KeyFieldOf(svc) == IF svc = kms THEN "TagKey" ELSE "Key"
ValueFieldOf(svc) == IF svc = kms THEN "TagValue" ELSE "Value"

\* index of the last entry of the list that carries key k
LastIndexOf(k) ==
    CHOOSE i \in 1..Len(svcTags) :
        /\ svcTags[i][KeyFieldOf(tagsSvc)] = <<k>>
        /\ \A j \in (i + 1)..Len(svcTags) :
            svcTags[j][KeyFieldOf(tagsSvc)] # <<k>>

\* C4: for a slice-shaped service, <Service>Tags gives exactly one list entry
\* per key of the container, carrying the key and its value, and
\* <Service>KeyValueTags of that list gives the container back; for a list
\* holding a key more than once <Service>KeyValueTags keeps one entry per
\* key, with the value of its last occurrence
C4_TagConversionsInverse ==
    /\ tagsPc \in {"listed", "back"} =>
        /\ Len(svcTags) = Cardinality(DOMAIN tags)
        /\ \A k \in DOMAIN tags :
            \E i \in 1..Len(svcTags) :
                /\ svcTags[i][KeyFieldOf(tagsSvc)] = <<k>>
                /\ svcTags[i][ValueFieldOf(tagsSvc)] = tags[k]
                /\ DOMAIN svcTags[i] = {KeyFieldOf(tagsSvc), ValueFieldOf(tagsSvc)}
    /\ tagsPc = "back" =>
        /\ DOMAIN kvTags = DOMAIN tags
        /\ \A k \in DOMAIN tags : kvTags[k] = tags[k]
    /\ tagsPc = "converted" =>
        /\ DOMAIN kvTags =
            {svcTags[i][KeyFieldOf(tagsSvc)][1] : i \in 1..Len(svcTags)}
        /\ \A k \in DOMAIN kvTags :
            kvTags[k] = svcTags[LastIndexOf(k)][ValueFieldOf(tagsSvc)]

\* C4 witness: a two-key container went to a kms tag list, second key
\* first, and back
C4_Witness ==
    /\ tagsPc = "back" /\ tagsSvc = kms
    /\ Cardinality(DOMAIN tags) = 2 /\ tags["k1"] # tags["k2"]
    /\ Len(svcTags) = 2 /\ svcTags[1]["TagKey"] = <<"k2">>
    /\ kvTags = tags

\* a list naming one key twice with different values has been converted
C4_WitnessDuplicate ==
    /\ tagsPc = "converted" /\ Len(svcTags) = 3
    /\ svcTags[1][KeyFieldOf(tagsSvc)] = svcTags[3][KeyFieldOf(tagsSvc)]
    /\ svcTags[1][ValueFieldOf(tagsSvc)] # svcTags[3][ValueFieldOf(tagsSvc)]
    /\ kvTags[svcTags[3][KeyFieldOf(tagsSvc)][1]] = svcTags[3][ValueFieldOf(tagsSvc)]

\* the service names of the declarations of one kind, in file order
SvcsOf(out, kind) ==
    LET sel == SelectSeq(out, LAMBDA e : e.kind = kind)
    IN  [i \in 1..Len(sel) |-> sel[i].svc]
Ascending(l) == \A i \in 1..(Len(l) - 1) : StrLess(l[i], l[i + 1])

\* C7: the generated file does not depend on the order the service names are
\* written in: two runs on permutations of the same two lists generate the
\* same file, and in it the functions of the map section and of the slice
\* section come in ascending order of service name
C7_OutputOrderIndependent ==
    /\ (genPc = {"A", "B"}
            /\ Range(srcA.MapServiceNames) = Range(srcB.MapServiceNames)
            /\ Range(srcA.SliceServiceNames) = Range(srcB.SliceServiceNames))
        => outA = outB
    /\ "A" \in genPc =>
        /\ Ascending(SvcsOf(outA, "MapTags"))
        /\ Ascending(SvcsOf(outA, "MapKeyValueTags"))
        /\ Ascending(SvcsOf(outA, "SliceTags"))
        /\ Ascending(SvcsOf(outA, "SliceKeyValueTags"))
        /\ Ascending(SvcsOf(outA, "import"))
        /\ Range(SvcsOf(outA, "MapTags")) = Range(srcA.MapServiceNames)
        /\ Range(SvcsOf(outA, "SliceTags")) = Range(srcA.SliceServiceNames)

\* C7 witness: both runs are done, and the lists were written in different
\* orders, neither of them sorted
C7_Witness ==
    /\ genPc = {"A", "B"}
    /\ srcA.SliceServiceNames = <<kms, elbv2, ec2, elb>>
    /\ srcB.SliceServiceNames = <<elbv2, elb, kms, ec2>>
    /\ srcA.MapServiceNames = <<guardduty, greengrass>>
    /\ srcB.MapServiceNames = <<greengrass, guardduty>>
    /\ outA = outB /\ Len(outA) = 17

====
